---- MODULE Spec2Model ----
(***************************************************************************)
(* Model of MangoHud's OpenTelemetry/Prometheus exporter                   *)
(* (src/src/otel_exporter.cpp, src/src/otel_exporter.h).                   *)
(*                                                                         *)
(* Strings are sequences of one-character strings.  Three threads exist:   *)
(* the host thread (calls start, stop, update_metrics, the destructor),    *)
(* the server thread (start_delay_timer, setup_http_server,                *)
(* handle_metrics_request, generate_metrics) and the metrics thread (run,  *)
(* update_metrics).                                                        *)
(***************************************************************************)
EXTENDS Integers, Sequences, FiniteSets, TLC

VARIABLES
    enabled_,          \* std::atomic<bool> enabled_
    should_stop_,      \* std::atomic<bool> should_stop_
    server_socket_,    \* int server_socket_
    metrics_updated_,  \* std::atomic<bool> metrics_updated_
    bind_address_,     \* std::string bind_address_
    bind_port_,        \* uint16_t bind_port_
    current_metrics_,  \* MetricsData current_metrics_
    metrics_mutex_,    \* owner of std::mutex metrics_mutex_, or NoThread
    server_thread_,    \* server_thread_.joinable()
    metrics_thread_,   \* metrics_thread_.joinable()
    pc,                \* position of each thread in its code
    um_in,             \* per thread: the sample an update_metrics call is copying
    gm_local,          \* generate_metrics' locals (now, labels)
    open_fds,          \* descriptors the kernel holds open for the process
    client,            \* the client connection: state, fd, data sent
    response,          \* what the client has received
    aborted,           \* the process was terminated (std::terminate / abort)
    host_last,         \* the last call the host thread completed
    destroying,        \* the destructor is running or has run
    calls,             \* number of calls the host has made
    samples,           \* number of update_metrics invocations that took the lock
    conns,             \* number of client connections made
    arg,               \* argument of the function under check (function specs)
    ret                \* its result

vars == <<enabled_, should_stop_, server_socket_, metrics_updated_,
          bind_address_, bind_port_, current_metrics_, metrics_mutex_,
          server_thread_, metrics_thread_, pc, um_in, gm_local, open_fds,
          client, response, aborted, host_last, destroying, calls, samples, conns,
          arg, ret>>

\* ------------------------------------------------------------------ bounds
MaxLen == 3        \* length of the enumerated input strings
MaxCalls == 4      \* calls the host thread makes
MaxSamples == 2    \* update_metrics invocations that take the lock
MaxConns == 1      \* client connections
MaxFds == 2        \* descriptors the process may hold open at once

\* --------------------------------------------------------------- constants
DefaultPort == 16969
MaxPort == 65535
IntMax == 2147483647
EngineCount == 18
FirstFd == 3

None == "none"

\* generate_metrics is not running
NoLocal == [now |-> 0, labels |-> <<>>]

\* no client is connected, nothing was sent, nothing was received
NoData == <<>>
NoClient == [st |-> None, fd |-> -1, sent |-> NoData, eof |-> FALSE]
NoResponse == [status |-> 0, body |-> <<>>]

\* the descriptors the process may use, all closed at first
FdRange == FirstFd..(FirstFd + MaxFds - 1)
NoFds == [fd \in FdRange |-> "closed"]

\* the function under check has not been applied yet
NoRet == [fn |-> None]

\* ------------------------------------------------------------------ strings
Digits == <<"0", "1", "2", "3", "4", "5", "6", "7", "8", "9">>

IsDigit(c) == \E i \in 1..10 : Digits[i] = c

DigitVal(c) == (CHOOSE i \in 1..10 : Digits[i] = c) - 1

\* isspace() in the "C" locale, as std::stoi (strtol) skips it
IsSpace(c) == c \in {" ", "\t", "\n", "\r", "\f"}

RECURSIVE StrOfLen(_, _)
StrOfLen(alphabet, n) ==
    IF n = 0 THEN {<<>>}
    ELSE {Append(s, c) : s \in StrOfLen(alphabet, n - 1), c \in alphabet}

StrUpTo(alphabet, n) == UNION {StrOfLen(alphabet, k) : k \in 0..n}

\* std::string::find(c): first index (1-based) of c in s, 0 for npos
Find(s, c) ==
    IF \E i \in 1..Len(s) : s[i] = c
    THEN CHOOSE i \in 1..Len(s) : s[i] = c /\ \A j \in 1..(i - 1) : s[j] # c
    ELSE 0

\* s.substr(pos) and s.substr(0, n), 1-based
SubstrFrom(s, i) == SubSeq(s, i, Len(s))
SubstrTo(s, n) == SubSeq(s, 1, n)

\* strstr(hay, needle) != nullptr
StrStr(hay, needle) ==
    \E i \in 1..(Len(hay) - Len(needle) + 1) :
        SubSeq(hay, i, i + Len(needle) - 1) = needle

\* std::to_string(int) for the non-negative values the model uses
RECURSIVE to_string(_)
to_string(n) ==
    IF n < 10 THEN <<Digits[n + 1]>>
    ELSE Append(to_string(n \div 10), Digits[(n % 10) + 1])

\* --------------------------------------------------------------- std::stoi
\* Accumulates the digits of s from position i on.  st is "ok" while the
\* magnitude fits an int, "min" when it is exactly 2147483648, "over" beyond.
RECURSIVE StoiDigits(_, _, _, _, _)
StoiDigits(s, i, acc, st, n) ==
    IF i > Len(s) \/ ~IsDigit(s[i]) THEN [mag |-> acc, st |-> st, n |-> n]
    ELSE LET d == DigitVal(s[i]) IN
         IF st = "ok" /\ (acc < IntMax \div 10 \/ (acc = IntMax \div 10 /\ d <= IntMax % 10))
         THEN StoiDigits(s, i + 1, acc * 10 + d, "ok", n + 1)
         ELSE IF st = "ok" /\ acc = IntMax \div 10 /\ d = (IntMax % 10) + 1
         THEN StoiDigits(s, i + 1, acc, "min", n + 1)
         ELSE StoiDigits(s, i + 1, acc, "over", n + 1)

RECURSIVE SkipSpace(_, _)
SkipSpace(s, i) ==
    IF i <= Len(s) /\ IsSpace(s[i]) THEN SkipSpace(s, i + 1) ELSE i

\* std::stoi(s): [ok |-> TRUE, val |-> int] or [ok |-> FALSE, what |-> exception].
\* Leading white space and one sign are skipped, the longest run of digits is
\* converted and whatever follows it is ignored.  INT_MIN itself converts
\* without an exception; it is returned here as -IntMax, which lies on the
\* same side of every comparison the callers make.
Stoi(s) ==
    LET i == SkipSpace(s, 1)
        neg == i <= Len(s) /\ s[i] = "-"
        j == IF i <= Len(s) /\ s[i] \in {"+", "-"} THEN i + 1 ELSE i
        r == StoiDigits(s, j, 0, "ok", 0)
    IN  IF r.n = 0 THEN [ok |-> FALSE, what |-> "invalid_argument", val |-> 0]
        ELSE IF r.st = "over" \/ (r.st = "min" /\ ~neg)
        THEN [ok |-> FALSE, what |-> "out_of_range", val |-> 0]
        ELSE IF r.st = "min" THEN [ok |-> TRUE, what |-> None, val |-> -IntMax]
        ELSE [ok |-> TRUE, what |-> None, val |-> IF neg THEN -r.mag ELSE r.mag]

\* ------------------------------------------------------ parse_bind_address
Zeros == <<"0", ".", "0", ".", "0", ".", "0">>

\* the range test of lines 49 and 63 written with >= for >
PortOfOffByOne(port_str) ==
    LET r == Stoi(port_str) IN
    IF ~r.ok THEN [port |-> DefaultPort, log |-> "parse_failed", raised |-> FALSE]
    ELSE IF r.val < 1 \/ r.val >= MaxPort
    THEN [port |-> DefaultPort, log |-> "invalid_port", raised |-> FALSE]
    ELSE [port |-> r.val, log |-> None, raised |-> FALSE]

\* lines 47-58 and 61-72: the try block around std::stoi.  Both exceptions
\* of std::stoi derive from std::exception and are caught (raised = FALSE);
\* "80abc" converts to 80 because std::stoi stops at the first non-digit.
PortOf(port_str) ==
    LET r == Stoi(port_str) IN
    IF ~r.ok THEN [port |-> DefaultPort, log |-> "parse_failed", raised |-> FALSE]
    ELSE IF r.val < 1 \/ r.val > MaxPort
    THEN [port |-> DefaultPort, log |-> "invalid_port", raised |-> FALSE]
    ELSE [port |-> r.val, log |-> None, raised |-> FALSE]

\* parse_bind_address(address): the values left in bind_address_, bind_port_
parse_bind_address(address) ==
    LET colon_pos == Find(address, ":") IN
    IF colon_pos # 0
    THEN LET p == PortOf(SubstrFrom(address, colon_pos + 1)) IN
         [bind_address_ |-> SubstrTo(address, colon_pos - 1),
          bind_port_ |-> p.port, log |-> p.log, raised |-> p.raised]
    ELSE LET p == PortOf(address) IN
         [bind_address_ |-> Zeros, bind_port_ |-> p.port, log |-> p.log,
          raised |-> p.raised]

\* ------------------------------------------------------ escape_label_value
\* the switch without its first case
EscapeCharNoBackslash(c) ==
    CASE c = "\"" -> <<"\\", "\"">>
      [] c = "\n" -> <<"\\", "n">>
      [] c = "\r" -> <<"\\", "r">>
      [] c = "\t" -> <<"\\", "t">>
      [] OTHER -> <<c>>

\* the switch of lines 274-293, for one character
EscapeChar(c) ==
    CASE c = "\\" -> <<"\\", "\\">>
      [] c = "\"" -> <<"\\", "\"">>
      [] c = "\n" -> <<"\\", "n">>
      [] c = "\r" -> <<"\\", "r">>
      [] c = "\t" -> <<"\\", "t">>
      [] OTHER -> <<c>>

RECURSIVE escape_label_value(_)
escape_label_value(value) ==
    IF value = <<>> THEN <<>>
    ELSE EscapeChar(Head(value)) \o escape_label_value(Tail(value))

\* -------------------------------------------------------------- MetricsData
Threads == {"host", "server", "metrics"}

\* struct MetricsData with its default member initialisers.  Real-valued
\* fields are held in thousandths.
DefaultMetrics ==
    [fps |-> 0, frametime |-> 0, cpu_load |-> 0, cpu_power |-> 0, cpu_mhz |-> 0,
     cpu_temp |-> 0, gpu_load |-> 0, gpu_temp |-> 0, gpu_core_clock |-> 0,
     gpu_mem_clock |-> 0, gpu_power |-> 0, gpu_vram_used |-> 0, ram_used |-> 0,
     swap_used |-> 0, process_rss |-> 0, process_name |-> <<>>,
     graphics_api |-> <<>>, process_pid |-> 0, timestamp |-> 0]

\* the object as the member initialisers of the constructor leave it, with
\* no thread spawned, no descriptor open and no client
Constructed(en) ==
    /\ enabled_ = en
    /\ should_stop_ = FALSE
    /\ server_socket_ = -1
    /\ metrics_updated_ = FALSE
    /\ current_metrics_ = DefaultMetrics
    /\ metrics_mutex_ = None
    /\ server_thread_ = FALSE
    /\ metrics_thread_ = FALSE
    /\ pc = [t \in Threads |-> IF t = "host" THEN "idle" ELSE None]
    /\ um_in = [t \in Threads |-> 0]
    /\ gm_local = NoLocal
    /\ open_fds = NoFds
    /\ client = NoClient
    /\ response = NoResponse
    /\ aborted = FALSE
    /\ host_last = None
    /\ destroying = FALSE
    /\ calls = 0
    /\ samples = 0
    /\ conns = 0

objVars == <<enabled_, should_stop_, server_socket_, metrics_updated_,
             current_metrics_, metrics_mutex_, server_thread_, metrics_thread_,
             pc, um_in, gm_local, open_fds, client, response, aborted,
             host_last, destroying, calls, samples, conns>>

\* ---------------------------------------------------------- generate_metrics
\* the 15 stanzas of lines 312-388 in the order they are written: the field
\* of current_metrics_, the metric name, the HELP text and the precision set
\* with std::setprecision (-1 for the int fields, written as integers)
MetricTable ==
    <<[field |-> "fps", name |-> "mangohud_fps_current",
       help |-> "Current frames per second", prec |-> 2],
      [field |-> "frametime", name |-> "mangohud_frametime_ms",
       help |-> "Current frame time in milliseconds", prec |-> 3],
      [field |-> "cpu_load", name |-> "mangohud_cpu_load_percent",
       help |-> "CPU load percentage", prec |-> 1],
      [field |-> "cpu_power", name |-> "mangohud_cpu_power_watts",
       help |-> "CPU power consumption in watts", prec |-> 1],
      [field |-> "cpu_mhz", name |-> "mangohud_cpu_frequency_mhz",
       help |-> "CPU frequency in MHz", prec |-> -1],
      [field |-> "cpu_temp", name |-> "mangohud_cpu_temperature_celsius",
       help |-> "CPU temperature in Celsius", prec |-> -1],
      [field |-> "gpu_load", name |-> "mangohud_gpu_load_percent",
       help |-> "GPU load percentage", prec |-> 1],
      [field |-> "gpu_temp", name |-> "mangohud_gpu_temperature_celsius",
       help |-> "GPU temperature in Celsius", prec |-> -1],
      [field |-> "gpu_core_clock", name |-> "mangohud_gpu_core_clock_mhz",
       help |-> "GPU core clock in MHz", prec |-> -1],
      [field |-> "gpu_mem_clock", name |-> "mangohud_gpu_memory_clock_mhz",
       help |-> "GPU memory clock in MHz", prec |-> -1],
      [field |-> "gpu_power", name |-> "mangohud_gpu_power_watts",
       help |-> "GPU power consumption in watts", prec |-> 1],
      [field |-> "gpu_vram_used", name |-> "mangohud_gpu_vram_used_gb",
       help |-> "GPU VRAM used in GB", prec |-> 3],
      [field |-> "ram_used", name |-> "mangohud_ram_used_gb",
       help |-> "System RAM used in GB", prec |-> 3],
      [field |-> "swap_used", name |-> "mangohud_swap_used_gb",
       help |-> "System swap used in GB", prec |-> 3],
      [field |-> "process_rss", name |-> "mangohud_process_rss_gb",
       help |-> "Process RSS memory in GB", prec |-> 3]>>

Pow10(n) == CASE n = 0 -> 1 [] n = 1 -> 10 [] n = 2 -> 100 [] n = 3 -> 1000

\* n written with exactly w digits
RECURSIVE PadDigits(_, _)
PadDigits(n, w) ==
    IF w = 0 THEN <<>> ELSE Append(PadDigits(n \div 10, w - 1), Digits[(n % 10) + 1])

\* operator<< under std::fixed << std::setprecision(prec) of a non-negative
\* value held in thousandths: rounded to prec decimals
Fixed(v, prec) ==
    LET unit == Pow10(3 - prec)
        q == (v + unit \div 2) \div unit
    IN  to_string(q \div Pow10(prec)) \o <<".">> \o PadDigits(q % Pow10(prec), prec)

FormatValue(v, prec) == IF prec < 0 THEN to_string(v) ELSE Fixed(v, prec)

\* lines 307-309: the label set, built once
Labels(m) ==
    <<"p", "r", "o", "c", "e", "s", "s", "_", "n", "a", "m", "e", "=", "\"">> \o escape_label_value(m.process_name)
    \o <<"\"", ",", "g", "r", "a", "p", "h", "i", "c", "s", "_", "a", "p", "i", "=", "\"">> \o escape_label_value(m.graphics_api)
    \o <<"\"", ",", "p", "i", "d", "=", "\"">> \o to_string(m.process_pid) \o <<"\"">>

\* one stanza: the HELP line, the TYPE line and the sample line
Stanza(i, m, labels, now) ==
    LET r == MetricTable[i] IN
    <<[kind |-> "HELP", name |-> r.name, text |-> r.help],
      [kind |-> "TYPE", name |-> r.name, text |-> "gauge"],
      [kind |-> "SAMPLE", name |-> r.name, labels |-> labels,
       value |-> FormatValue(m[r.field], r.prec), ts |-> now]>>

\* the document with the clock read again for every stanza
RECURSIVE BodyClockPerStanza(_, _, _, _)
BodyClockPerStanza(i, m, labels, now) ==
    IF i > Len(MetricTable) THEN <<>>
    ELSE Stanza(i, m, labels, now + i - 1) \o BodyClockPerStanza(i + 1, m, labels, now)

\* lines 312-388: stanzas i.. of the document, all with the one timestamp
\* `now` of line 304 and the one label set
RECURSIVE Body(_, _, _, _)
Body(i, m, labels, now) ==
    IF i > Len(MetricTable) THEN <<>>
    ELSE Stanza(i, m, labels, now) \o Body(i + 1, m, labels, now)

\* generate_metrics() on a snapshot m at clock reading now
generate_metrics(m, now) == Body(1, m, Labels(m), now)

\* ================================================== generate_metrics alone
RenderNames == StrUpTo({"g", "\"", "\\", "\n"}, MaxLen - 1)

RenderInit ==
    /\ enabled_ = TRUE
    /\ should_stop_ = FALSE
    /\ server_socket_ = -1
    /\ metrics_updated_ \in BOOLEAN
    /\ \E name \in RenderNames, api \in {<<>>, <<"v", "k">>}, f \in {0, 59999, 60004} :
          current_metrics_ =
            [DefaultMetrics EXCEPT !.process_name = name, !.graphics_api = api,
                                   !.fps = f, !.frametime = f \div 4,
                                   !.cpu_load = f \div 2, !.cpu_mhz = f \div 16,
                                   !.process_pid = 1234]
    /\ metrics_mutex_ = None
    /\ server_thread_ = FALSE
    /\ metrics_thread_ = FALSE
    /\ pc = [t \in Threads |-> IF t = "host" THEN "idle" ELSE None]
    /\ um_in = [t \in Threads |-> 0]
    /\ gm_local = NoLocal
    /\ open_fds = NoFds
    /\ client = NoClient
    /\ response = NoResponse
    /\ aborted = FALSE
    /\ host_last = None
    /\ destroying = FALSE
    /\ calls = 0
    /\ samples = 0
    /\ conns = 0
    /\ arg \in {[now |-> 1700000000 + d] : d \in 0..1}
    /\ ret = NoRet
    /\ bind_address_ = Zeros
    /\ bind_port_ = DefaultPort

GenerateMetrics ==
    /\ ret = NoRet
    /\ ret' = [fn |-> "generate_metrics", doc |-> generate_metrics(current_metrics_, arg.now)]
    /\ UNCHANGED <<objVars, arg, bind_address_, bind_port_>>

RenderNext == GenerateMetrics

RenderSpec == RenderInit /\ [][RenderNext]_vars

\* the metric families in the order the specification fixes
FamilyOrder ==
    <<"fps_current", "frametime_ms", "cpu_load_percent", "cpu_power_watts",
      "cpu_frequency_mhz", "cpu_temperature_celsius", "gpu_load_percent",
      "gpu_temperature_celsius", "gpu_core_clock_mhz", "gpu_memory_clock_mhz",
      "gpu_power_watts", "gpu_vram_used_gb", "ram_used_gb", "swap_used_gb",
      "process_rss_gb">>

\* a document of exactly 15 stanzas HELP, TYPE gauge, sample, in the fixed
\* order, whose sample lines share one label set and one timestamp
WellFormedDoc(doc) ==
    /\ Len(doc) = 3 * 15
    /\ \A i \in 1..15 :
          /\ doc[3 * i - 2].kind = "HELP"
          /\ doc[3 * i - 1].kind = "TYPE" /\ doc[3 * i - 1].text = "gauge"
          /\ doc[3 * i].kind = "SAMPLE"
          /\ \A j \in (3 * i - 2)..(3 * i) : doc[j].name = "mangohud_" \o FamilyOrder[i]
          /\ doc[3 * i].labels = doc[3].labels
          /\ doc[3 * i].ts = doc[3].ts

\* C10: every document generate_metrics produces has exactly 15 stanzas in
\* the fixed order, each a HELP line, a TYPE gauge line and a sample line,
\* and the 15 sample lines carry the same label set and the same timestamp.
C10_DocShape ==
    ret # NoRet => WellFormedDoc(ret.doc)

C10_Witness ==
    /\ ret # NoRet
    /\ current_metrics_.process_name = <<"g", "\"">>
    /\ ret.doc[3].labels = Labels(current_metrics_)
    /\ ret.doc[3].value = <<"6", "0", ".", "0", "0">>
    /\ ret.doc[45].ts = arg.now

\* ================================================= parse_bind_address alone
ParseAlphabet == {"8", "0", "a", ":", "-"}

ParseExtra ==
    {<<"1", "6", "9", "6", "9">>,
     <<"1">>,
     <<"6", "5", "5", "3", "5">>,
     <<"6", "5", "5", "3", "6">>,
     <<"0">>,
     <<"8", "0", "a", "b", "c">>,
     <<"1", "2", "7", ".", "0", ".", "0", ".", "1", ":", "6", "5", "5", "3", "5">>,
     <<"1", "2", "7", ".", "0", ".", "0", ".", "1", ":", "6", "5", "5", "3", "6">>,
     <<"l", "o", "c", "a", "l", "h", "o", "s", "t", ":", "9", "0", "9", "0">>,
     <<"h", ":", "8", "0", ":", "9", "0">>,
     <<"h", ":">>,
     <<"h", ":", "2", "1", "4", "7", "4", "8", "3", "6", "4", "7">>,
     <<"h", ":", "2", "1", "4", "7", "4", "8", "3", "6", "4", "8">>,
     <<"-", "2", "1", "4", "7", "4", "8", "3", "6", "4", "8">>,
     <<"h", ":", "-", "2", "1", "4", "7", "4", "8", "3", "6", "4", "9">>,
     <<"9", "9", "9", "9", "9", "9", "9", "9", "9", "9", "9">>,
     <<"0", ".", "0", ".", "0", ".", "0", ":", "0", "0", "0", "8", "0">>,
     <<"+", "8", "0">>}

ParseInputs == StrUpTo(ParseAlphabet, MaxLen) \cup ParseExtra

ParseInit ==
    /\ Constructed(TRUE)
    /\ arg \in ParseInputs
    /\ ret = NoRet
    /\ bind_address_ = <<>>
    /\ bind_port_ = 0

\* the constructor's call parse_bind_address(params->otel_port), line 33
ParseBindAddress ==
    /\ ret = NoRet
    /\ LET r == parse_bind_address(arg) IN
        /\ bind_address_' = r.bind_address_
        /\ bind_port_' = r.bind_port_
        /\ ret' = [fn |-> "parse_bind_address", log |-> r.log, raised |-> r.raised]
    /\ UNCHANGED <<objVars, arg>>

ParseNext == ParseBindAddress

ParseSpec == ParseInit /\ [][ParseNext]_vars

\* --- what the claims call a port: the text after the first colon, or the
\* whole text when there is none
HostPart(a) == IF Find(a, ":") = 0 THEN Zeros ELSE SubstrTo(a, Find(a, ":") - 1)
PortPart(a) == IF Find(a, ":") = 0 THEN a ELSE SubstrFrom(a, Find(a, ":") + 1)

IsDecimal(s) == Len(s) >= 1 /\ \A i \in 1..Len(s) : IsDigit(s[i])

RECURSIVE StripZeros(_)
StripZeros(s) == IF Len(s) > 1 /\ s[1] = "0" THEN StripZeros(Tail(s)) ELSE s

RECURSIVE DecimalValue(_)
DecimalValue(s) ==
    IF s = <<>> THEN 0
    ELSE 10 * DecimalValue(SubSeq(s, 1, Len(s) - 1)) + DigitVal(s[Len(s)])

\* a decimal integer in [1,65535]
IsPortInRange(s) ==
    /\ IsDecimal(s)
    /\ Len(StripZeros(s)) <= 5
    /\ DecimalValue(StripZeros(s)) \in 1..MaxPort

\* a number: an optional sign and then digits only
IsNumber(s) ==
    \/ IsDecimal(s)
    \/ Len(s) >= 2 /\ s[1] \in {"+", "-"} /\ IsDecimal(Tail(s))

\* a number whose value is outside [1,65535]
IsNumberOutOfRange(s) ==
    /\ IsNumber(s)
    /\ \/ s[1] = "-"
       \/ ~IsPortInRange(IF s[1] = "+" THEN Tail(s) ELSE s)

\* C7: for every input host:port (split at the first colon) whose port is a
\* decimal integer in [1,65535], parse_bind_address leaves bind_address_ =
\* host and bind_port_ = that port; for a bare port in that range it leaves
\* bind_address_ = "0.0.0.0" and bind_port_ = that port.
C7_ValidHostPort ==
    (ret # NoRet /\ IsPortInRange(PortPart(arg)))
        => /\ bind_address_ = HostPart(arg)
           /\ bind_port_ = DecimalValue(StripZeros(PortPart(arg)))
           /\ (Find(arg, ":") = 0 => bind_address_ = Zeros)

C7_Witness ==
    /\ ret # NoRet
    /\ arg = <<"1", "2", "7", ".", "0", ".", "0", ".", "1", ":", "6", "5", "5", "3", "5">>
    /\ bind_port_ = MaxPort

\* C8: for every input whose port part is not a number, or is a number
\* outside [1,65535], parse_bind_address leaves bind_port_ = 16969 and
\* raises nothing.
C8_BadPortGivesDefault ==
    (ret # NoRet /\ (~IsNumber(PortPart(arg)) \/ IsNumberOutOfRange(PortPart(arg))))
        => (bind_port_ = DefaultPort /\ ~ret.raised)

\* ================================================= escape_label_value alone
EscapeAlphabet == {"\\", "\"", "\n", "\r", "\t", "n", "a"}

EscapeInputs == StrUpTo(EscapeAlphabet, MaxLen)

EscapeInit ==
    /\ Constructed(TRUE)
    /\ arg \in EscapeInputs
    /\ ret = NoRet
    /\ bind_address_ = Zeros
    /\ bind_port_ = DefaultPort

EscapeLabelValue ==
    /\ ret = NoRet
    /\ ret' = [fn |-> "escape_label_value", out |-> escape_label_value(arg)]
    /\ UNCHANGED <<objVars, arg, bind_address_, bind_port_>>

EscapeNext == EscapeLabelValue

EscapeSpec == EscapeInit /\ [][EscapeNext]_vars

\* scanning an escaped text from the left: every backslash starts one of the
\* five pairs, and no quote or control character stands outside a pair
RECURSIVE WellEscaped(_)
WellEscaped(s) ==
    IF s = <<>> THEN TRUE
    ELSE IF s[1] = "\\"
    THEN Len(s) >= 2 /\ s[2] \in {"\\", "\"", "n", "r", "t"}
         /\ WellEscaped(SubSeq(s, 3, Len(s)))
    ELSE s[1] \notin {"\"", "\n", "\r", "\t"} /\ WellEscaped(Tail(s))

\* the reader's side: undoing the five pairs
RECURSIVE Unescape(_)
Unescape(s) ==
    IF s = <<>> THEN <<>>
    ELSE IF s[1] = "\\" /\ Len(s) >= 2
    THEN <<CASE s[2] = "n" -> "\n"
             [] s[2] = "r" -> "\r"
             [] s[2] = "t" -> "\t"
             [] OTHER -> s[2]>> \o Unescape(SubSeq(s, 3, Len(s)))
    ELSE <<s[1]>> \o Unescape(Tail(s))

\* C9: the output of escape_label_value has no raw quote, newline, carriage
\* return or tab and no backslash outside the five escape pairs, and the
\* input is recovered from it.
C9_EscapeSound ==
    ret # NoRet => (WellEscaped(ret.out) /\ Unescape(ret.out) = arg)

C9_Witness ==
    /\ ret # NoRet
    /\ arg = <<"\\", "n", "\"">>
    /\ ret.out = <<"\\", "\\", "n", "\\", "\"">>

\* ============================================================ the exporter
\* ----------------------------------------------------------- environment
IsOpen(fd) == fd \in FdRange /\ open_fds[fd] # "closed"

HasFreeFd == \E fd \in FdRange : open_fds[fd] = "closed"

\* the kernel hands out the lowest free descriptor
LowestFree ==
    CHOOSE fd \in FdRange :
        open_fds[fd] = "closed" /\ \A g \in FdRange : open_fds[g] = "closed" => fd <= g

\* close(fd): EBADF and no effect when fd is not open
FdsAfterClose(fd) == IF IsOpen(fd) THEN [open_fds EXCEPT ![fd] = "closed"] ELSE open_fds

\* a connection waiting in the backlog of a listening socket is reset when
\* that socket is closed
ClientAfterClose(fd) ==
    IF IsOpen(fd) /\ open_fds[fd] = "listening" /\ client.st = "pending"
    THEN [client EXCEPT !.st = "reset"]
    ELSE client

\* params->otel_port values the exporter is constructed with
OtelPorts == {<<"1", "6", "9", "6", "9">>, <<"l", "o", "c", "a", "l", "h", "o", "s", "t", ":", "9", "0", "9", "0">>}

\* readings of std::chrono::system_clock in milliseconds
ClockReadings == {1000, 1001}

\* what a client may send
ReqMetrics == <<"G", "E", "T", " ", "/", "m", "e", "t", "r", "i", "c", "s", " ", "H", "T", "T", "P", "/", "1", ".", "1", "\r", "\n", "\r", "\n">>
ReqOther == <<"G", "E", "T", " ", "/", "o", "t", "h", "e", "r", " ", "H", "T", "T", "P", "/", "1", ".", "1", "\r", "\n", "\r", "\n">>
ReqMetricsFoo == <<"G", "E", "T", " ", "/", "m", "e", "t", "r", "i", "c", "s", "f", "o", "o", " ", "H", "T", "T", "P", "/", "1", ".", "1", "\r", "\n", "\r", "\n">>
ReqPost == <<"P", "O", "S", "T", " ", "/", "x", " ", "H", "T", "T", "P", "/", "1", ".", "1", "\r", "\n", "\r", "\n", "G", "E", "T", " ", "/", "m", "e", "t", "r", "i", "c", "s">>

Requests == {ReqMetrics, ReqOther, ReqMetricsFoo, ReqPost}

\* sizeof(buffer) - 1, line 191
RecvMax == 1023

\* the needle of line 199
Needle == <<"G", "E", "T", " ", "/", "m", "e", "t", "r", "i", "c", "s">>

\* sw_stats is a null pointer
NoStats == -1

\* currentLogData, get_program_name(), getpid() and HUDElements.sw_stats as
\* the k-th update_metrics invocation finds them (k >= 1)
LiveAt(k) ==
    [fps |-> 60000 + k, frametime |-> 16667 + k, cpu_load |-> 23400 + k,
     cpu_power |-> 45000 + k, cpu_mhz |-> 3000 + k, cpu_temp |-> 60 + k,
     gpu_load |-> 90000 + k, gpu_temp |-> 70 + k, gpu_core_clock |-> 1800 + k,
     gpu_mem_clock |-> 7000 + k, gpu_power |-> 200000 + k,
     gpu_vram_used |-> 4000 + k, ram_used |-> 8000 + k, swap_used |-> k,
     process_rss |-> 2000 + k, process_name |-> <<"g", "a", "m", "e">>,
     process_pid |-> 1234,
     engine |-> CASE k = 2 -> EngineCount [] k = 3 -> NoStats [] OTHER -> k % EngineCount]

\* extern const char* engines[]
engines == [i \in 0..(EngineCount - 1) |-> <<"e">> \o to_string(i)]

Unknown == <<"u", "n", "k", "n", "o", "w", "n">>

\* ------------------------------------------------------------- metrics_mutex_
\* a lock() that does not wait for the owner
CanLockAlways(owner) == TRUE

\* std::mutex::lock() returns only when no thread owns the mutex
CanLock(owner) == owner = None

\* ------------------------------------------------------------ update_metrics
\* lines 236-250: the 15 metric fields
CopyMetrics(m, live) ==
    [m EXCEPT !.fps = live.fps, !.frametime = live.frametime,
              !.cpu_load = live.cpu_load, !.cpu_power = live.cpu_power,
              !.cpu_mhz = live.cpu_mhz, !.cpu_temp = live.cpu_temp,
              !.gpu_load = live.gpu_load, !.gpu_temp = live.gpu_temp,
              !.gpu_core_clock = live.gpu_core_clock,
              !.gpu_mem_clock = live.gpu_mem_clock, !.gpu_power = live.gpu_power,
              !.gpu_vram_used = live.gpu_vram_used, !.ram_used = live.ram_used,
              !.swap_used = live.swap_used, !.process_rss = live.process_rss]

\* what a read past the end of engines[] yields
OutOfTable == <<"?">>

\* line 260: engines[i]
ReadEngine(i) == IF i \in DOMAIN engines THEN engines[i] ELSE OutOfTable

\* the sanity check written with <= in place of <
CopyIdentityOffByOne(m, live) ==
    [m EXCEPT !.process_name = live.process_name,
              !.process_pid = live.process_pid,
              !.graphics_api = IF live.engine # NoStats /\ live.engine <= EngineCount
                               THEN ReadEngine(live.engine) ELSE Unknown]

\* lines 253-263: process name, pid and graphics API
CopyIdentity(m, live) ==
    [m EXCEPT !.process_name = live.process_name,
              !.process_pid = live.process_pid,
              !.graphics_api = IF live.engine # NoStats /\ live.engine < EngineCount
                               THEN ReadEngine(live.engine) ELSE Unknown]

\* line 265: steady_clock::now(), here the number of the invocation
Stamp(m, k) == [m EXCEPT !.timestamp = k]

\* the snapshot a complete update_metrics invocation k leaves; 0 is construction
SnapshotOf(k) ==
    IF k = 0 THEN DefaultMetrics
    ELSE Stamp(CopyIdentity(CopyMetrics(DefaultMetrics, LiveAt(k)), LiveAt(k)), k)

\* ----------------------------------------------------------------- start()
\* the other half of line 83 only
StartReturnsEarlyIgnoringEnabled == server_thread_

StartReturnsEarlyIgnoringJoinable == ~enabled_

\* line 83: !enabled_ || server_thread_.joinable()
StartReturnsEarly == ~enabled_ \/ server_thread_

\* ------------------------------------------------------- initial condition
Init ==
    /\ \E en \in BOOLEAN :
        /\ Constructed(en)
        /\ \E port \in OtelPorts :
            IF en
            THEN /\ bind_address_ = parse_bind_address(port).bind_address_
                 /\ bind_port_ = parse_bind_address(port).bind_port_
            ELSE /\ bind_address_ = <<>>
                 /\ bind_port_ = 0
    /\ arg = <<>>
    /\ ret = NoRet

\* start(), lines 83-85: disabled or already started
StartNoOp ==
    /\ ~aborted
    /\ pc["host"] = "idle"
    /\ ~destroying
    /\ calls < MaxCalls
    /\ calls' = calls + 1
    /\ StartReturnsEarly
    /\ host_last' = "start_noop"
    /\ UNCHANGED <<enabled_, should_stop_, server_socket_, metrics_updated_, bind_address_, bind_port_, current_metrics_, metrics_mutex_, server_thread_, metrics_thread_, pc, um_in, gm_local, open_fds, client, response, aborted, destroying, samples, conns, arg, ret>>

\* start(), lines 87-88: clears the stop flag and spawns the server thread.
\* Assigning to a joinable std::thread calls std::terminate.
Start ==
    /\ ~aborted
    /\ pc["host"] = "idle"
    /\ ~destroying
    /\ calls < MaxCalls
    /\ calls' = calls + 1
    /\ ~StartReturnsEarly
    /\ should_stop_' = FALSE
    /\ server_thread_' = TRUE
    /\ pc' = [pc EXCEPT !["host"] = "start_metrics", !["server"] = "sd_sleep"]
    /\ UNCHANGED <<enabled_, server_socket_, metrics_updated_, bind_address_, bind_port_, current_metrics_, metrics_mutex_, metrics_thread_, um_in, gm_local, open_fds, client, response, aborted, host_last, destroying, samples, conns, arg, ret>>

\* start(), line 89: spawns the metrics thread
StartMetrics ==
    /\ ~aborted
    /\ pc["host"] = "start_metrics"
    /\ IF metrics_thread_
       THEN /\ aborted' = TRUE
            /\ UNCHANGED <<metrics_thread_, pc, host_last>>
       ELSE /\ metrics_thread_' = TRUE
            /\ pc' = [pc EXCEPT !["host"] = "idle", !["metrics"] = "run_check"]
            /\ host_last' = "start"
            /\ UNCHANGED aborted
    /\ UNCHANGED <<enabled_, should_stop_, server_socket_, metrics_updated_, bind_address_, bind_port_, current_metrics_, metrics_mutex_, server_thread_, um_in, gm_local, open_fds, client, response, destroying, calls, samples, conns, arg, ret>>

\* stop(), line 102
Stop ==
    /\ ~aborted
    /\ pc["host"] = "idle"
    /\ ~destroying
    /\ calls < MaxCalls
    /\ calls' = calls + 1
    /\ should_stop_' = TRUE
    /\ pc' = [pc EXCEPT !["host"] = "stop_sock"]
    /\ UNCHANGED <<enabled_, server_socket_, metrics_updated_, bind_address_, bind_port_, current_metrics_, metrics_mutex_, server_thread_, metrics_thread_, um_in, gm_local, open_fds, client, response, aborted, host_last, destroying, samples, conns, arg, ret>>

\* ~OtelExporter(), lines 37-40: calls stop()
Destroy ==
    /\ ~aborted
    /\ pc["host"] = "idle"
    /\ ~destroying
    /\ calls < MaxCalls
    /\ calls' = calls + 1
    /\ destroying' = TRUE
    /\ should_stop_' = TRUE
    /\ pc' = [pc EXCEPT !["host"] = "stop_sock"]
    /\ UNCHANGED <<enabled_, server_socket_, metrics_updated_, bind_address_, bind_port_, current_metrics_, metrics_mutex_, server_thread_, metrics_thread_, um_in, gm_local, open_fds, client, response, aborted, host_last, samples, conns, arg, ret>>

\* stop(), lines 104-105: closes the socket when server_socket_ >= 0
StopSock ==
    /\ ~aborted
    /\ pc["host"] = "stop_sock"
    /\ IF server_socket_ >= 0
       THEN /\ open_fds' = FdsAfterClose(server_socket_)
            /\ client' = ClientAfterClose(server_socket_)
            /\ pc' = [pc EXCEPT !["host"] = "stop_clear"]
       ELSE /\ pc' = [pc EXCEPT !["host"] = "stop_notify"]
            /\ UNCHANGED <<open_fds, client>>
    /\ UNCHANGED <<enabled_, should_stop_, server_socket_, metrics_updated_, bind_address_, bind_port_, current_metrics_, metrics_mutex_, server_thread_, metrics_thread_, um_in, gm_local, response, aborted, host_last, destroying, calls, samples, conns, arg, ret>>

\* stop(), line 106
StopClear ==
    /\ ~aborted
    /\ pc["host"] = "stop_clear"
    /\ server_socket_' = -1
    /\ pc' = [pc EXCEPT !["host"] = "stop_notify"]
    /\ UNCHANGED <<enabled_, should_stop_, metrics_updated_, bind_address_, bind_port_, current_metrics_, metrics_mutex_, server_thread_, metrics_thread_, um_in, gm_local, open_fds, client, response, aborted, host_last, destroying, calls, samples, conns, arg, ret>>

\* stop(), line 109: notify_all wakes the metrics thread only if it is
\* waiting on metrics_cv_ at this moment
StopNotify ==
    /\ ~aborted
    /\ pc["host"] = "stop_notify"
    /\ pc' = [pc EXCEPT !["host"] = "stop_join_server",
                        !["metrics"] = IF @ = "run_wait" THEN "run_wake_notify" ELSE @]
    /\ UNCHANGED <<enabled_, should_stop_, server_socket_, metrics_updated_, bind_address_, bind_port_, current_metrics_, metrics_mutex_, server_thread_, metrics_thread_, um_in, gm_local, open_fds, client, response, aborted, host_last, destroying, calls, samples, conns, arg, ret>>

\* stop(), lines 111-113: join() returns once the thread has ended
StopJoinServer ==
    /\ ~aborted
    /\ pc["host"] = "stop_join_server"
    /\ IF server_thread_
       THEN /\ pc["server"] = "done"
            /\ server_thread_' = FALSE
            /\ pc' = [pc EXCEPT !["host"] = "stop_join_metrics", !["server"] = "joined"]
       ELSE /\ pc' = [pc EXCEPT !["host"] = "stop_join_metrics"]
            /\ UNCHANGED server_thread_
    /\ UNCHANGED <<enabled_, should_stop_, server_socket_, metrics_updated_, bind_address_, bind_port_, current_metrics_, metrics_mutex_, metrics_thread_, um_in, gm_local, open_fds, client, response, aborted, host_last, destroying, calls, samples, conns, arg, ret>>

\* stop(), lines 115-118, and the return of stop()
StopJoinMetrics ==
    /\ ~aborted
    /\ pc["host"] = "stop_join_metrics"
    /\ IF metrics_thread_
       THEN /\ pc["metrics"] = "done"
            /\ metrics_thread_' = FALSE
            /\ pc' = [pc EXCEPT !["host"] = IF destroying THEN "dead" ELSE "idle",
                                !["metrics"] = "joined"]
       ELSE /\ pc' = [pc EXCEPT !["host"] = IF destroying THEN "dead" ELSE "idle"]
            /\ UNCHANGED metrics_thread_
    /\ host_last' = "stop"
    /\ UNCHANGED <<enabled_, should_stop_, server_socket_, metrics_updated_, bind_address_, bind_port_, current_metrics_, metrics_mutex_, server_thread_, um_in, gm_local, open_fds, client, response, aborted, destroying, calls, samples, conns, arg, ret>>

\* the public update_metrics() called by the host
HostUpdateMetrics ==
    /\ ~aborted
    /\ pc["host"] = "idle"
    /\ ~destroying
    /\ calls < MaxCalls
    /\ calls' = calls + 1
    /\ samples < MaxSamples
    /\ pc' = [pc EXCEPT !["host"] = "um_lock"]
    /\ UNCHANGED <<enabled_, should_stop_, server_socket_, metrics_updated_, bind_address_, bind_port_, current_metrics_, metrics_mutex_, server_thread_, metrics_thread_, um_in, gm_local, open_fds, client, response, aborted, host_last, destroying, samples, conns, arg, ret>>

\* --------------------------------------------- update_metrics(), by thread t
\* where update_metrics returns to
AfterUpdate(t) == IF t = "host" THEN "idle" ELSE "run_check"

\* line 233: lock_guard takes metrics_mutex_
UmLock(t) ==
    /\ ~aborted
    /\ pc[t] = "um_lock"
    /\ metrics_mutex_ # t
    /\ CanLock(metrics_mutex_)
    /\ samples < MaxSamples
    /\ metrics_mutex_' = t
    /\ samples' = samples + 1
    /\ um_in' = [um_in EXCEPT ![t] = samples + 1]
    /\ pc' = [pc EXCEPT ![t] = "um_copy"]
    /\ UNCHANGED <<enabled_, should_stop_, server_socket_, metrics_updated_, bind_address_, bind_port_, current_metrics_, server_thread_, metrics_thread_, gm_local, open_fds, client, response, aborted, host_last, destroying, calls, conns, arg, ret>>

\* line 233 reached by the thread that already owns metrics_mutex_ (run() holds
\* its unique_lock when it calls update_metrics at line 228).  Locking a
\* std::mutex the caller owns is undefined: the thread waits for itself for
\* ever, or lock() throws std::system_error, which leaves the thread function
\* and ends the process in std::terminate.
UmRelock(t) ==
    /\ ~aborted
    /\ pc[t] = "um_lock"
    /\ metrics_mutex_ = t
    /\ \/ /\ pc' = [pc EXCEPT ![t] = "um_deadlock"]
          /\ UNCHANGED aborted
       \/ /\ aborted' = TRUE
          /\ UNCHANGED pc
    /\ UNCHANGED <<enabled_, should_stop_, server_socket_, metrics_updated_, bind_address_, bind_port_, current_metrics_, metrics_mutex_, server_thread_, metrics_thread_, um_in, gm_local, open_fds, client, response, host_last, destroying, calls, samples, conns, arg, ret>>

\* lines 236-250
UmCopy(t) ==
    /\ ~aborted
    /\ pc[t] = "um_copy"
    /\ current_metrics_' = CopyMetrics(current_metrics_, LiveAt(um_in[t]))
    /\ pc' = [pc EXCEPT ![t] = "um_ident"]
    /\ UNCHANGED <<enabled_, should_stop_, server_socket_, metrics_updated_, bind_address_, bind_port_, metrics_mutex_, server_thread_, metrics_thread_, um_in, gm_local, open_fds, client, response, aborted, host_last, destroying, calls, samples, conns, arg, ret>>

\* lines 253-263
UmIdent(t) ==
    /\ ~aborted
    /\ pc[t] = "um_ident"
    /\ current_metrics_' = CopyIdentity(current_metrics_, LiveAt(um_in[t]))
    /\ pc' = [pc EXCEPT ![t] = "um_stamp"]
    /\ UNCHANGED <<enabled_, should_stop_, server_socket_, metrics_updated_, bind_address_, bind_port_, metrics_mutex_, server_thread_, metrics_thread_, um_in, gm_local, open_fds, client, response, aborted, host_last, destroying, calls, samples, conns, arg, ret>>

\* lines 265-267: the timestamp, metrics_updated_, and the lock_guard unlocks
UmStamp(t) ==
    /\ ~aborted
    /\ pc[t] = "um_stamp"
    /\ current_metrics_' = Stamp(current_metrics_, um_in[t])
    /\ metrics_updated_' = TRUE
    /\ metrics_mutex_' = IF metrics_mutex_ = t THEN None ELSE metrics_mutex_
    /\ um_in' = [um_in EXCEPT ![t] = 0]
    /\ pc' = [pc EXCEPT ![t] = AfterUpdate(t)]
    /\ host_last' = IF t = "host" THEN "update_metrics" ELSE host_last
    /\ UNCHANGED <<enabled_, should_stop_, server_socket_, bind_address_, bind_port_, server_thread_, metrics_thread_, gm_local, open_fds, client, response, aborted, destroying, calls, samples, conns, arg, ret>>

\* ------------------------------------------------ run(), the metrics thread

\* line 220
RunCheck ==
    /\ ~aborted
    /\ pc["metrics"] = "run_check"
    /\ pc' = [pc EXCEPT !["metrics"] = IF should_stop_ THEN "done" ELSE "run_lock"]
    /\ UNCHANGED <<enabled_, should_stop_, server_socket_, metrics_updated_, bind_address_, bind_port_, current_metrics_, metrics_mutex_, server_thread_, metrics_thread_, um_in, gm_local, open_fds, client, response, aborted, host_last, destroying, calls, samples, conns, arg, ret>>

\* line 221: unique_lock takes metrics_mutex_
RunLock ==
    /\ ~aborted
    /\ pc["metrics"] = "run_lock"
    /\ CanLock(metrics_mutex_)
    /\ metrics_mutex_' = "metrics"
    /\ pc' = [pc EXCEPT !["metrics"] = "run_pred"]
    /\ UNCHANGED <<enabled_, should_stop_, server_socket_, metrics_updated_, bind_address_, bind_port_, current_metrics_, server_thread_, metrics_thread_, um_in, gm_local, open_fds, client, response, aborted, host_last, destroying, calls, samples, conns, arg, ret>>

\* line 224, entry of wait_for: the predicate is tested before waiting, with
\* the mutex held; break when it holds
RunPred ==
    /\ ~aborted
    /\ pc["metrics"] = "run_pred"
    /\ IF should_stop_
       THEN /\ pc' = [pc EXCEPT !["metrics"] = "done"]
            /\ metrics_mutex_' = IF metrics_mutex_ = "metrics" THEN None ELSE metrics_mutex_
       ELSE /\ pc' = [pc EXCEPT !["metrics"] = "run_enter_wait"]
            /\ UNCHANGED metrics_mutex_
    /\ UNCHANGED <<enabled_, should_stop_, server_socket_, metrics_updated_, bind_address_, bind_port_, current_metrics_, server_thread_, metrics_thread_, um_in, gm_local, open_fds, client, response, aborted, host_last, destroying, calls, samples, conns, arg, ret>>

\* line 224, wait_until inside wait_for: the thread releases the mutex and
\* starts waiting on metrics_cv_; a notify_all issued before this moment is
\* not seen
RunEnterWait ==
    /\ ~aborted
    /\ pc["metrics"] = "run_enter_wait"
    /\ metrics_mutex_' = IF metrics_mutex_ = "metrics" THEN None ELSE metrics_mutex_
    /\ pc' = [pc EXCEPT !["metrics"] = "run_wait"]
    /\ UNCHANGED <<enabled_, should_stop_, server_socket_, metrics_updated_, bind_address_, bind_port_, current_metrics_, server_thread_, metrics_thread_, um_in, gm_local, open_fds, client, response, aborted, host_last, destroying, calls, samples, conns, arg, ret>>

\* line 224: otel_update_interval elapses during the wait
RunTimeout ==
    /\ ~aborted
    /\ pc["metrics"] = "run_wait"
    /\ pc' = [pc EXCEPT !["metrics"] = "run_wake_timeout"]
    /\ UNCHANGED <<enabled_, should_stop_, server_socket_, metrics_updated_, bind_address_, bind_port_, current_metrics_, metrics_mutex_, server_thread_, metrics_thread_, um_in, gm_local, open_fds, client, response, aborted, host_last, destroying, calls, samples, conns, arg, ret>>

\* line 224: a spurious wake-up of the condition variable
RunSpurious ==
    /\ ~aborted
    /\ pc["metrics"] = "run_wait"
    /\ pc' = [pc EXCEPT !["metrics"] = "run_wake_spurious"]
    /\ UNCHANGED <<enabled_, should_stop_, server_socket_, metrics_updated_, bind_address_, bind_port_, current_metrics_, metrics_mutex_, server_thread_, metrics_thread_, um_in, gm_local, open_fds, client, response, aborted, host_last, destroying, calls, samples, conns, arg, ret>>

\* line 224 after the timeout: the mutex is taken again and wait_for returns
\* the predicate; lines 225-228: break, or update_metrics with the lock held
RunWakeTimeout ==
    /\ ~aborted
    /\ pc["metrics"] = "run_wake_timeout"
    /\ CanLock(metrics_mutex_)
    /\ IF should_stop_
       THEN /\ pc' = [pc EXCEPT !["metrics"] = "done"]
            /\ UNCHANGED metrics_mutex_
       ELSE /\ pc' = [pc EXCEPT !["metrics"] = "um_lock"]
            /\ metrics_mutex_' = "metrics"
    /\ UNCHANGED <<enabled_, should_stop_, server_socket_, metrics_updated_, bind_address_, bind_port_, current_metrics_, server_thread_, metrics_thread_, um_in, gm_local, open_fds, client, response, aborted, host_last, destroying, calls, samples, conns, arg, ret>>

\* line 224 after a notification or a spurious wake-up: the mutex is taken
\* again and the predicate tested; break when it holds, else wait again
RunWakeNotified ==
    /\ ~aborted
    /\ pc["metrics"] \in {"run_wake_notify", "run_wake_spurious"}
    /\ CanLock(metrics_mutex_)
    /\ IF should_stop_
       THEN /\ pc' = [pc EXCEPT !["metrics"] = "done"]
            /\ UNCHANGED metrics_mutex_
       ELSE /\ pc' = [pc EXCEPT !["metrics"] = "run_enter_wait"]
            /\ metrics_mutex_' = "metrics"
    /\ UNCHANGED <<enabled_, should_stop_, server_socket_, metrics_updated_, bind_address_, bind_port_, current_metrics_, server_thread_, metrics_thread_, um_in, gm_local, open_fds, client, response, aborted, host_last, destroying, calls, samples, conns, arg, ret>>

\* ------------------- start_delay_timer(), setup_http_server(): server thread
\* inet_pton(AF_INET, ...) accepts dotted quads only
InetPtonOk(s) ==
    LET bounds == {0, Len(s) + 1} \cup {i \in 1..Len(s) : s[i] = "."} IN
    /\ Cardinality(bounds) = 5
    /\ \A b \in bounds \ {Len(s) + 1} :
          LET n == CHOOSE x \in bounds : x > b /\ \A y \in bounds : y > b => x <= y
              part == SubSeq(s, b + 1, n - 1)
          IN  /\ Len(part) \in 1..3
              /\ IsDecimal(part)
              /\ DecimalValue(part) <= 255

\* lines 94-98: the start delay ends and should_stop_ is tested
SdWake ==
    /\ ~aborted
    /\ pc["server"] = "sd_sleep"
    /\ pc' = [pc EXCEPT !["server"] = IF should_stop_ THEN "done" ELSE "hs_socket"]
    /\ UNCHANGED <<enabled_, should_stop_, server_socket_, metrics_updated_, bind_address_, bind_port_, current_metrics_, metrics_mutex_, server_thread_, metrics_thread_, um_in, gm_local, open_fds, client, response, aborted, host_last, destroying, calls, samples, conns, arg, ret>>

\* lines 121-125: socket() succeeds with the lowest free descriptor or fails
HsSocket ==
    /\ ~aborted
    /\ pc["server"] = "hs_socket"
    /\ \/ /\ HasFreeFd
          /\ server_socket_' = LowestFree
          /\ open_fds' = [open_fds EXCEPT ![LowestFree] = "socket"]
          /\ pc' = [pc EXCEPT !["server"] = "hs_pton"]
       \/ /\ server_socket_' = -1
          /\ pc' = [pc EXCEPT !["server"] = "done"]
          /\ UNCHANGED open_fds
    /\ UNCHANGED <<enabled_, should_stop_, metrics_updated_, bind_address_, bind_port_, current_metrics_, metrics_mutex_, server_thread_, metrics_thread_, um_in, gm_local, client, response, aborted, host_last, destroying, calls, samples, conns, arg, ret>>

\* lines 128-142: setsockopt, then inet_pton; on failure close(server_socket_)
HsPton ==
    /\ ~aborted
    /\ pc["server"] = "hs_pton"
    /\ IF InetPtonOk(bind_address_)
       THEN /\ pc' = [pc EXCEPT !["server"] = "hs_bind"]
            /\ UNCHANGED <<open_fds, client>>
       ELSE /\ open_fds' = FdsAfterClose(server_socket_)
            /\ client' = ClientAfterClose(server_socket_)
            /\ pc' = [pc EXCEPT !["server"] = "hs_fail"]
    /\ UNCHANGED <<enabled_, should_stop_, server_socket_, metrics_updated_, bind_address_, bind_port_, current_metrics_, metrics_mutex_, server_thread_, metrics_thread_, um_in, gm_local, response, aborted, host_last, destroying, calls, samples, conns, arg, ret>>

\* lines 144-150: bind() succeeds, or fails (address in use, or the
\* descriptor is no longer an open socket) and close(server_socket_) follows
HsBind ==
    /\ ~aborted
    /\ pc["server"] = "hs_bind"
    /\ \/ /\ IsOpen(server_socket_)
          /\ open_fds' = [open_fds EXCEPT ![server_socket_] = "bound"]
          /\ pc' = [pc EXCEPT !["server"] = "hs_listen"]
          /\ UNCHANGED client
       \/ /\ open_fds' = FdsAfterClose(server_socket_)
          /\ client' = ClientAfterClose(server_socket_)
          /\ pc' = [pc EXCEPT !["server"] = "hs_fail"]
    /\ UNCHANGED <<enabled_, should_stop_, server_socket_, metrics_updated_, bind_address_, bind_port_, current_metrics_, metrics_mutex_, server_thread_, metrics_thread_, um_in, gm_local, response, aborted, host_last, destroying, calls, samples, conns, arg, ret>>

\* lines 152-159: listen() succeeds, or fails and close(server_socket_) follows
HsListen ==
    /\ ~aborted
    /\ pc["server"] = "hs_listen"
    /\ \/ /\ IsOpen(server_socket_)
          /\ open_fds' = [open_fds EXCEPT ![server_socket_] = "listening"]
          /\ pc' = [pc EXCEPT !["server"] = "hs_loop"]
          /\ UNCHANGED client
       \/ /\ open_fds' = FdsAfterClose(server_socket_)
          /\ client' = ClientAfterClose(server_socket_)
          /\ pc' = [pc EXCEPT !["server"] = "hs_fail"]
    /\ UNCHANGED <<enabled_, should_stop_, server_socket_, metrics_updated_, bind_address_, bind_port_, current_metrics_, metrics_mutex_, server_thread_, metrics_thread_, um_in, gm_local, response, aborted, host_last, destroying, calls, samples, conns, arg, ret>>

\* lines 140-141, 148-149, 155-156: server_socket_ = -1; return
HsFail ==
    /\ ~aborted
    /\ pc["server"] = "hs_fail"
    /\ server_socket_' = -1
    /\ pc' = [pc EXCEPT !["server"] = "done"]
    /\ UNCHANGED <<enabled_, should_stop_, metrics_updated_, bind_address_, bind_port_, current_metrics_, metrics_mutex_, server_thread_, metrics_thread_, um_in, gm_local, open_fds, client, response, aborted, host_last, destroying, calls, samples, conns, arg, ret>>

\* line 161
HsLoop ==
    /\ ~aborted
    /\ pc["server"] = "hs_loop"
    /\ pc' = [pc EXCEPT !["server"] = IF should_stop_ THEN "done" ELSE "hs_select"]
    /\ UNCHANGED <<enabled_, should_stop_, server_socket_, metrics_updated_, bind_address_, bind_port_, current_metrics_, metrics_mutex_, server_thread_, metrics_thread_, um_in, gm_local, open_fds, client, response, aborted, host_last, destroying, calls, samples, conns, arg, ret>>

\* lines 162-177: FD_SET and select with the 1 s timeout.  With
\* server_socket_ = -1 FD_SET writes outside the set: a fortified build
\* aborts, otherwise select(0, ...) times out.  On a descriptor that is not
\* open select fails with EBADF and the loop is left.  Otherwise select
\* returns 1 when a connection is pending and 0 (or EINTR) when not, or it
\* fails with another errno and the loop is left (lines 172-174).
HsSelect ==
    /\ ~aborted
    /\ pc["server"] = "hs_select"
    /\ IF server_socket_ < 0
       THEN \/ /\ aborted' = TRUE
               /\ UNCHANGED pc
            \/ /\ pc' = [pc EXCEPT !["server"] = "hs_loop"]
               /\ UNCHANGED aborted
       ELSE /\ \/ pc' = [pc EXCEPT !["server"] =
                           IF ~IsOpen(server_socket_) THEN "done"
                           ELSE IF open_fds[server_socket_] = "listening" /\ client.st = "pending"
                           THEN "hs_accept"
                           ELSE "hs_loop"]
               \/ pc' = [pc EXCEPT !["server"] = "done"]
            /\ UNCHANGED aborted
    /\ UNCHANGED <<enabled_, should_stop_, server_socket_, metrics_updated_, bind_address_, bind_port_, current_metrics_, metrics_mutex_, server_thread_, metrics_thread_, um_in, gm_local, open_fds, client, response, host_last, destroying, calls, samples, conns, arg, ret>>

\* lines 179-181: accept(server_socket_); a failed accept goes round the loop
HsAccept ==
    /\ ~aborted
    /\ pc["server"] = "hs_accept"
    /\ IF /\ IsOpen(server_socket_)
          /\ open_fds[server_socket_] = "listening"
          /\ client.st = "pending"
          /\ HasFreeFd
       THEN /\ open_fds' = [open_fds EXCEPT ![LowestFree] = "conn"]
            /\ client' = [client EXCEPT !.st = "accepted", !.fd = LowestFree]
            /\ pc' = [pc EXCEPT !["server"] = "hr_recv"]
       ELSE /\ pc' = [pc EXCEPT !["server"] = "hs_loop"]
            /\ UNCHANGED <<open_fds, client>>
    /\ UNCHANGED <<enabled_, should_stop_, server_socket_, metrics_updated_, bind_address_, bind_port_, current_metrics_, metrics_mutex_, server_thread_, metrics_thread_, um_in, gm_local, response, aborted, host_last, destroying, calls, samples, conns, arg, ret>>

\* ------------------------------------------------- handle_metrics_request()
\* the bytes recv() stores: at most sizeof(buffer) - 1
Received(sent) == SubSeq(sent, 1, IF Len(sent) < RecvMax THEN Len(sent) ELSE RecvMax)

\* line 199: strstr(buffer, "GET /metrics") != nullptr
IsMetricsRequest(buffer) == StrStr(buffer, Needle)

\* send(): the client receives the response if its connection is still open
Sent(resp) == IF IsOpen(client.fd) THEN resp ELSE response

NotFound == [status |-> 404, body |-> <<>>]

\* lines 191-194: recv() returns 0 (the client closed without sending) or -1;
\* the handler returns without sending anything
HrRecvNothing ==
    /\ ~aborted
    /\ pc["server"] = "hr_recv"
    /\ client.sent = NoData
    /\ client.eof
    /\ pc' = [pc EXCEPT !["server"] = "hs_close_client"]
    /\ UNCHANGED <<enabled_, should_stop_, server_socket_, metrics_updated_, bind_address_, bind_port_, current_metrics_, metrics_mutex_, server_thread_, metrics_thread_, um_in, gm_local, open_fds, client, response, aborted, host_last, destroying, calls, samples, conns, arg, ret>>

\* lines 191-216: recv() returns the request; strstr decides between
\* generate_metrics() and the 404 response
HrRecv ==
    /\ ~aborted
    /\ pc["server"] = "hr_recv"
    /\ client.sent # NoData
    /\ IF IsMetricsRequest(Received(client.sent))
       THEN /\ pc' = [pc EXCEPT !["server"] = "gm_lock"]
            /\ UNCHANGED response
       ELSE /\ response' = Sent(NotFound)
            /\ pc' = [pc EXCEPT !["server"] = "hs_close_client"]
    /\ UNCHANGED <<enabled_, should_stop_, server_socket_, metrics_updated_, bind_address_, bind_port_, current_metrics_, metrics_mutex_, server_thread_, metrics_thread_, um_in, gm_local, open_fds, client, aborted, host_last, destroying, calls, samples, conns, arg, ret>>

\* generate_metrics(), line 300: lock_guard takes metrics_mutex_
GmLock ==
    /\ ~aborted
    /\ pc["server"] = "gm_lock"
    /\ CanLock(metrics_mutex_)
    /\ metrics_mutex_' = "server"
    /\ pc' = [pc EXCEPT !["server"] = "gm_labels"]
    /\ UNCHANGED <<enabled_, should_stop_, server_socket_, metrics_updated_, bind_address_, bind_port_, current_metrics_, server_thread_, metrics_thread_, um_in, gm_local, open_fds, client, response, aborted, host_last, destroying, calls, samples, conns, arg, ret>>

\* generate_metrics(), lines 304-309: the clock is read and the labels built
GmLabels ==
    /\ ~aborted
    /\ pc["server"] = "gm_labels"
    /\ \E now \in ClockReadings :
          gm_local' = [now |-> now, labels |-> Labels(current_metrics_)]
    /\ pc' = [pc EXCEPT !["server"] = "gm_body"]
    /\ UNCHANGED <<enabled_, should_stop_, server_socket_, metrics_updated_, bind_address_, bind_port_, current_metrics_, metrics_mutex_, server_thread_, metrics_thread_, um_in, open_fds, client, response, aborted, host_last, destroying, calls, samples, conns, arg, ret>>

\* generate_metrics(), lines 312-391: the 15 stanzas, the unlock; then lines
\* 202-211: the 200 response is sent
GmBody ==
    /\ ~aborted
    /\ pc["server"] = "gm_body"
    /\ response' = Sent([status |-> 200,
                         body |-> Body(1, current_metrics_, gm_local.labels, gm_local.now)])
    /\ metrics_mutex_' = IF metrics_mutex_ = "server" THEN None ELSE metrics_mutex_
    /\ gm_local' = NoLocal
    /\ pc' = [pc EXCEPT !["server"] = "hs_close_client"]
    /\ UNCHANGED <<enabled_, should_stop_, server_socket_, metrics_updated_, bind_address_, bind_port_, current_metrics_, server_thread_, metrics_thread_, um_in, open_fds, client, aborted, host_last, destroying, calls, samples, conns, arg, ret>>

\* line 183: close(client_socket)
HsCloseClient ==
    /\ ~aborted
    /\ pc["server"] = "hs_close_client"
    /\ open_fds' = FdsAfterClose(client.fd)
    /\ client' = [client EXCEPT !.st = "served", !.fd = -1]
    /\ pc' = [pc EXCEPT !["server"] = "hs_loop"]
    /\ UNCHANGED <<enabled_, should_stop_, server_socket_, metrics_updated_, bind_address_, bind_port_, current_metrics_, metrics_mutex_, server_thread_, metrics_thread_, um_in, gm_local, response, aborted, host_last, destroying, calls, samples, conns, arg, ret>>

\* ----------------------------------------------------------------- clients

\* a client connects to the listening socket
ClientConnect ==
    /\ ~aborted
    /\ client.st \in {None, "served", "reset"}
    /\ conns < MaxConns
    /\ \E fd \in FdRange : open_fds[fd] = "listening"
    /\ client' = [st |-> "pending", fd |-> -1, sent |-> NoData, eof |-> FALSE]
    /\ response' = NoResponse
    /\ conns' = conns + 1
    /\ UNCHANGED <<enabled_, should_stop_, server_socket_, metrics_updated_, bind_address_, bind_port_, current_metrics_, metrics_mutex_, server_thread_, metrics_thread_, pc, um_in, gm_local, open_fds, aborted, host_last, destroying, calls, samples, arg, ret>>

\* the client sends its request
ClientSend(req) ==
    /\ ~aborted
    /\ client.st \in {"pending", "accepted"}
    /\ client.sent = NoData
    /\ ~client.eof
    /\ client' = [client EXCEPT !.sent = req]
    /\ UNCHANGED <<enabled_, should_stop_, server_socket_, metrics_updated_, bind_address_, bind_port_, current_metrics_, metrics_mutex_, server_thread_, metrics_thread_, pc, um_in, gm_local, open_fds, response, aborted, host_last, destroying, calls, samples, conns, arg, ret>>

\* the client closes its end without having sent anything
ClientShutdown ==
    /\ ~aborted
    /\ client.st \in {"pending", "accepted"}
    /\ client.sent = NoData
    /\ ~client.eof
    /\ client' = [client EXCEPT !.eof = TRUE]
    /\ UNCHANGED <<enabled_, should_stop_, server_socket_, metrics_updated_, bind_address_, bind_port_, current_metrics_, metrics_mutex_, server_thread_, metrics_thread_, pc, um_in, gm_local, open_fds, response, aborted, host_last, destroying, calls, samples, conns, arg, ret>>

\* -------------------------------------------------------------- the system
HostCall ==
    \/ StartNoOp
    \/ Start
    \/ Stop
    \/ Destroy
    \/ HostUpdateMetrics

HostStep ==
    \/ StartMetrics
    \/ StopSock
    \/ StopClear
    \/ StopNotify
    \/ StopJoinServer
    \/ StopJoinMetrics
    \/ UmLock("host")
    \/ UmRelock("host")
    \/ UmCopy("host")
    \/ UmIdent("host")
    \/ UmStamp("host")

MetricsStep ==
    \/ RunCheck
    \/ RunLock
    \/ RunPred
    \/ RunEnterWait
    \/ RunTimeout
    \/ RunWakeTimeout
    \/ RunWakeNotified
    \/ UmLock("metrics")
    \/ UmRelock("metrics")
    \/ UmCopy("metrics")
    \/ UmIdent("metrics")
    \/ UmStamp("metrics")

ServerStep ==
    \/ SdWake
    \/ HsSocket
    \/ HsPton
    \/ HsBind
    \/ HsListen
    \/ HsFail
    \/ HsLoop
    \/ HsSelect
    \/ HsAccept
    \/ HrRecvNothing
    \/ HrRecv
    \/ GmLock
    \/ GmLabels
    \/ GmBody
    \/ HsCloseClient

ClientStep ==
    \/ ClientConnect
    \/ \E req \in Requests : ClientSend(req)
    \/ ClientShutdown

Next ==
    \/ HostCall
    \/ HostStep
    \/ MetricsStep
    \/ RunSpurious
    \/ ServerStep
    \/ ClientStep

Spec == Init /\ [][Next]_vars

\* the threads keep running while they can take a step, and the timed waits
\* (the start delay, select's timeout, wait_for's timeout) end; nothing is
\* assumed about when the host makes its calls or about what clients do
FairSpec ==
    /\ Spec
    /\ WF_vars(HostStep)
    /\ WF_vars(MetricsStep)
    /\ WF_vars(ServerStep)

\* ================================================================== claims
InStop ==
    pc["host"] \in {"stop_sock", "stop_clear", "stop_notify",
                    "stop_join_server", "stop_join_metrics"}

\* stop() (or the destructor) has just returned
StopReturned == pc["host"] \in {"idle", "dead"} /\ host_last = "stop"

NoThreadRuns == pc["server"] \in {None, "joined"} /\ pc["metrics"] \in {None, "joined"}

NoSocketOpen == \A fd \in FdRange : open_fds[fd] = "closed"

\* C1: for an enabled exporter every call of stop() eventually returns, and
\* when it returns neither the server thread nor the metrics thread runs.
C1_StopReturns ==
    (enabled_ /\ InStop) ~> (StopReturned /\ NoThreadRuns)

\* C2: while no stop has been requested, every accepted connection whose
\* request is GET /metrics eventually receives the 200 response.
C2_MetricsServed ==
    (client.st = "accepted" /\ client.sent = ReqMetrics /\ ~should_stop_)
        ~> (response.status = 200 \/ should_stop_)

\* the request line, its method and its path
RequestLine(req) == IF Find(req, "\r") = 0 THEN req ELSE SubstrTo(req, Find(req, "\r") - 1)

Method(req) ==
    LET line == RequestLine(req) IN
    IF Find(line, " ") = 0 THEN line ELSE SubstrTo(line, Find(line, " ") - 1)

Path(req) ==
    LET line == RequestLine(req)
        rest == IF Find(line, " ") = 0 THEN <<>> ELSE SubstrFrom(line, Find(line, " ") + 1)
    IN  IF Find(rest, " ") = 0 THEN rest ELSE SubstrTo(rest, Find(rest, " ") - 1)

IsGetMetrics(req) == Method(req) = <<"G", "E", "T">> /\ Path(req) = <<"/", "m", "e", "t", "r", "i", "c", "s">>

\* C3: a request is answered with 200 only if its method is GET and its path
\* is exactly /metrics; every other request is answered with 404 and an
\* empty body.
C3_ExactRequestLine ==
    response.status # 0 =>
        /\ response.status = 200 => IsGetMetrics(client.sent)
        /\ ~IsGetMetrics(client.sent) => response = NotFound

\* C4: with enabled = false no thread is ever spawned and no socket opened:
\* server_socket_ stays -1 and both thread handles stay non-joinable.
C4_DisabledInert ==
    ~enabled_ =>
        /\ server_socket_ = -1
        /\ ~server_thread_ /\ ~metrics_thread_
        /\ NoThreadRuns
        /\ NoSocketOpen

\* a disabled exporter on which stop() and then start() have been called
C4_Witness ==
    /\ ~enabled_
    /\ should_stop_
    /\ host_last = "start_noop"
    /\ pc["host"] = "idle"

\* C5: once a stop() call has returned the listening socket is closed
\* (nothing opened by setup_http_server is open, server_socket_ = -1) and
\* both threads are joined.
C5_StoppedClosed ==
    (enabled_ /\ StopReturned) =>
        /\ server_socket_ = -1
        /\ NoSocketOpen
        /\ ~server_thread_ /\ ~metrics_thread_
        /\ NoThreadRuns

\* C6: every document sent reflects exactly one snapshot: the construction
\* defaults or what one update_metrics invocation wrote.
C6_OneSnapshot ==
    response.status = 200 =>
        \E k \in 0..MaxSamples, now \in ClockReadings :
            response.body = generate_metrics(SnapshotOf(k), now)

\* a document of the first update is served after the second has begun
C6_Witness ==
    /\ response.status = 200
    /\ \E now \in ClockReadings : response.body = generate_metrics(SnapshotOf(1), now)
    /\ samples = 2

\* C11: when recv() returns a value <= 0 the client is answered with a 404
\* response with an empty body before its connection is closed.
C11_ReadFailureGets404 ==
    (client.st = "served" /\ client.sent = NoData) => response = NotFound

\* C12: every time the wait of the metrics thread ends by the interval
\* elapsing with no stop requested, the thread completes update_metrics
\* (the snapshot holds the live values of that tick, metrics_updated_ is
\* true) and goes back to waiting for the next tick.
C12_TickCompletes ==
    (pc["metrics"] = "um_lock")
        ~> (/\ metrics_updated_
            /\ pc["metrics"] \in {"run_check", "run_lock", "run_pred", "run_enter_wait", "run_wait"}
            /\ \E k \in 1..MaxSamples : current_metrics_ = SnapshotOf(k))

\* a thread is about to lock metrics_mutex_
AtLock(t) == pc[t] \in {"um_lock", "gm_lock", "run_lock"}

\* C13: no thread tries to acquire metrics_mutex_ while it already holds it,
\* and no thread is stuck for ever holding it.
C13_NoSelfLock ==
    \A t \in Threads :
        /\ ~(AtLock(t) /\ metrics_mutex_ = t)
        /\ pc[t] # "um_deadlock"

\* C14: once stop() is requested the server thread terminates whatever the
\* connected client does; stated for a server thread that is reading the
\* request of an accepted client after the metrics thread has ended.
C14_ListenerNotHeldByClient ==
    (should_stop_ /\ pc["server"] = "hr_recv" /\ pc["metrics"] = "done")
        ~> (pc["server"] \in {"done", "joined"})

\* stop() is past its notify_all (line 109)
StopNotified == pc["host"] \in {"stop_join_server", "stop_join_metrics"}

\* C15: stop() wakes the metrics thread without the interval timeout: once
\* stop() has set should_stop_ and called notify_all, the metrics thread is
\* not left waiting on metrics_cv_ with only the timeout to end its wait.
C15_NoLostWakeup ==
    ~(should_stop_ /\ StopNotified /\ pc["metrics"] = "run_wait")

\* a step in which the host thread calls start(): it either returns at once
\* or goes on to spawn the metrics thread
StartStep ==
    /\ pc["host"] = "idle"
    /\ calls' = calls + 1
    /\ pc'["host"] \in {"idle", "start_metrics"}

\* a step that creates a server thread, a step that creates a metrics thread
SpawnsServer == pc'["server"] = "sd_sleep" /\ pc["server"] # "sd_sleep"

SpawnsMetrics == pc'["metrics"] = "run_check" /\ pc["host"] = "start_metrics"

\* C16: start() on an exporter whose server thread handle is joinable spawns
\* nothing and changes no state of the exporter, and a thread is only ever
\* created when no thread of its kind exists.
C16_StartIdempotent ==
    [][/\ (StartStep /\ server_thread_) =>
            UNCHANGED <<enabled_, should_stop_, server_socket_, metrics_updated_,
                        bind_address_, bind_port_, current_metrics_, metrics_mutex_,
                        server_thread_, metrics_thread_, pc, um_in, gm_local, open_fds>>
       /\ SpawnsServer => pc["server"] \in {None, "joined"}
       /\ SpawnsMetrics => pc["metrics"] \in {None, "joined"}]_vars

\* start() has just returned on an enabled exporter whose server thread
\* handle is joinable
C16_Witness ==
    /\ enabled_
    /\ server_thread_
    /\ host_last = "start_noop"
    /\ pc["host"] = "idle"
    /\ pc["server"] \in {"sd_sleep", "hs_select", "done"}

\* stop() has returned on an exporter that had been started
Stopped ==
    /\ pc["host"] \in {"idle", "dead"}
    /\ pc["server"] = "joined"
    /\ pc["metrics"] = "joined"

\* C17: once stop() has returned on a started exporter, no later call spawns
\* a thread, clears should_stop_ or opens a socket.
C17_StoppedTerminal ==
    [][Stopped =>
        /\ pc'["server"] = "joined" /\ pc'["metrics"] \in {"joined"}
        /\ ~server_thread_' /\ ~metrics_thread_'
        /\ should_stop_'
        /\ \A fd \in FdRange : open_fds[fd] = "closed" => open_fds'[fd] = "closed"]_vars

\* a step in which setup_http_server returns after socket() failed (line
\* 124) or after inet_pton, bind or listen failed (lines 141, 149, 156)
SetupFails ==
    /\ pc["server"] \in {"hs_socket", "hs_fail"}
    /\ pc'["server"] = "done"

\* the metrics thread is stuck on metrics_mutex_ or the process has aborted
SamplerDead == aborted \/ pc["metrics"] = "um_deadlock"

\* C18: when socket(), inet_pton, bind or listen fails, the server thread
\* returns with server_socket_ = -1 and no descriptor left open, and while
\* no stop is requested the metrics thread is still running.
C18_SetupFailureContained ==
    [][SetupFails =>
        /\ server_socket_' = -1
        /\ NoSocketOpen'
        /\ ~should_stop_' => ~SamplerDead']_vars

\* the server thread is about to pass server_socket_ to setsockopt (line
\* 128), bind (144), listen (152), select (170) or accept (180)
UsesServerSocket ==
    pc["server"] \in {"hs_pton", "hs_bind", "hs_listen", "hs_select", "hs_accept"}

\* C19: the server thread never passes server_socket_ to a system call after
\* stop() has closed that descriptor or set server_socket_ to -1.
C19_SocketUsedWhileOpen ==
    UsesServerSocket => IsOpen(server_socket_)

\* ------------------------------------------------ update_metrics on its own
\* the states of HUDElements.sw_stats: absent, or present with an engine
\* index inside or past the table
EngineStates == {NoStats} \cup (0..(EngineCount + 2))

UpdateInputs == [k : 1..(MaxSamples + 1), engine : EngineStates]

\* the live values of invocation k with the engine index e
LiveWith(k, e) == [LiveAt(k) EXCEPT !.engine = e]

UpdateInit ==
    /\ Constructed(TRUE)
    /\ arg \in UpdateInputs
    /\ ret = NoRet
    /\ bind_address_ = <<>>
    /\ bind_port_ = 0

\* one call of update_metrics(), lines 232-267, by the only thread
UpdateMetrics ==
    /\ ret = NoRet
    /\ CanLock(metrics_mutex_)
    /\ LET live == LiveWith(arg.k, arg.engine) IN
        current_metrics_' = Stamp(CopyIdentity(CopyMetrics(current_metrics_, live), live), arg.k)
    /\ metrics_updated_' = TRUE
    /\ ret' = [fn |-> "update_metrics"]
    /\ UNCHANGED <<enabled_, should_stop_, server_socket_, bind_address_, bind_port_, metrics_mutex_, server_thread_, metrics_thread_, pc, um_in, gm_local, open_fds, client, response, aborted, host_last, destroying, calls, samples, conns, arg>>

UpdateNext == UpdateMetrics

UpdateSpec == UpdateInit /\ [][UpdateNext]_vars

====
